---- MODULE Spec2Model ----
(***************************************************************************)
(* Model of reproduce-17650.py: main() dispatching on --diagnose between   *)
(* diagnose_cffi_issue() and the reproduction procedure.                   *)
(*                                                                         *)
(* A path is a sequence of segments (<<"venv","site-packages">> stands for *)
(* /venv/site-packages).  The file system is the pair of sets files, dirs. *)
(* A text (stdout, stderr) is a sequence of lines, a line a sequence of    *)
(* words; the blank line is <<>>.                                          *)
(***************************************************************************)
EXTENDS Integers, Sequences, FiniteSets, TLC

VARIABLES
    args_diagnose,   \* args.diagnose
    uv_binary,       \* os.environ.get("UV_BINARY", "uv")
    pc,              \* position in main() / diagnose_cffi_issue()
    cwd,             \* os.getcwd()
    sys_path,        \* sys.path
    files,           \* regular files existing on the file system
    dirs,            \* directories existing on the file system
    issues_found,    \* diagnose_cffi_issue: issues_found (the path of each fix)
    idx,             \* diagnose_cffi_issue: position of the for loop over sys.path
    import_outcome,  \* diagnose_cffi_issue: what check 3 observed
    printed_fixes,   \* diagnose_cffi_issue: the fixes printed by the summary
    cmds,            \* commands handed to run_cmd, in order
    code, out, err,  \* main: result of the last run_cmd
    transcript,      \* step headers printed by the reproduction
    exit_status,     \* status the process exits with (-1 while running)
    exc,             \* exception that ended the run ("none" if it returned)
    probe3,          \* history: the result of the clean-project probe of step 3
    created,         \* history: paths the script itself created
    files0, dirs0    \* history: the file system at process start

vars == <<args_diagnose, uv_binary, pc, cwd, sys_path, files, dirs, issues_found, idx,
          import_outcome, printed_fixes, cmds, code, out, err, transcript,
          exit_status, exc, probe3, created, files0, dirs0>>

diag_vars == <<issues_found, idx, import_outcome, printed_fixes>>
run_vars == <<cmds, code, out, err, transcript, probe3>>
const_vars == <<args_diagnose, uv_binary, cwd, sys_path, files0, dirs0>>

\* Longest sys.path explored.
MaxPathLen == 2

---------------------------------------------------------------------------
(* Paths *)

Join(p, name) == Append(p, name)

ParentOf(p) == SubSeq(p, 1, Len(p) - 1)

Last(p) == p[Len(p)]

IsUnder(p, d) == Len(p) >= Len(d) /\ SubSeq(p, 1, Len(d)) = d

\* Segments whose text contains the substring "site-packages".
MarkerSegments == {"site-packages"}

\* "site-packages" in path
HasMarker(p) == \E k \in 1..Len(p) : p[k] \in MarkerSegments

\* A relative path is resolved by the OS against the working directory.
Abs(p, wd) == IF p # <<>> /\ Head(p) = "." THEN wd \o Tail(p) ELSE p

\* os.path.isdir
IsDir(p, wd, D) == Abs(p, wd) \in D

\* os.path.exists
Exists(p, wd, F, D) == Abs(p, wd) \in (F \cup D)

---------------------------------------------------------------------------
(* The directories of the explored environments *)

Proj == <<"proj">>
SitePkgs == <<"venv", "site-packages">>
NoDir == <<"nodir">>
EmptyEntry == <<>>
DotEntry == <<".">>

Roots == {Proj, SitePkgs}
BaseDirs == {Proj, <<"venv">>, SitePkgs, <<"tmp">>}
PathEntries == {EmptyEntry, DotEntry, Proj, SitePkgs, NoDir}

\* What a directory holds under the name cffi: nothing, a regular file, a
\* directory without __init__.py, a directory with __init__.py.
Kinds == {"none", "file", "dir", "pkg"}

RootFiles(r, py, kind) ==
    (IF py THEN {Join(r, "cffi.py")} ELSE {})
    \cup (IF kind = "file" THEN {Join(r, "cffi")} ELSE {})
    \cup (IF kind = "pkg" THEN {r \o <<"cffi", "__init__.py">>} ELSE {})

RootDirs(r, kind) == IF kind \in {"dir", "pkg"} THEN {Join(r, "cffi")} ELSE {}

BoundedSeq(S, n) == UNION {[1..k -> S] : k \in 0..n}

\* tempfile.TemporaryDirectory() and the paths main() builds from it.
tmpdir == <<"tmp", "tmpdir">>
project_dir == Join(tmpdir, "test-cffi")
shadow_file == Join(project_dir, "cffi.py")
shadow_dir == Join(project_dir, "cffi")
shadow_init == Join(shadow_dir, "__init__.py")
VenvSite == project_dir \o <<".venv", "site-packages">>
InstalledInit == VenvSite \o <<"cffi", "__init__.py">>

---------------------------------------------------------------------------
(* The interpreter's import of cffi *)

NotFound == <<"<not found>">>
NamespaceLoc == <<"None">>

\* sys.path entry '' stands for the current directory.
EntryDir(entry, wd) == IF entry = EmptyEntry THEN wd ELSE entry

\* Resolution of "import cffi" along a search path: in each directory a
\* package cffi/__init__.py wins over the module cffi.py; a cffi/ directory
\* without __init__.py only counts (as a namespace package) when no entry
\* holds a regular package or module.
RECURSIVE FindSpec(_, _, _, _, _)
FindSpec(paths, wd, F, D, ns) ==
    IF paths = <<>> THEN (IF ns THEN NamespaceLoc ELSE NotFound)
    ELSE LET d == Abs(EntryDir(Head(paths), wd), wd)
         IN IF d \notin D THEN FindSpec(Tail(paths), wd, F, D, ns)
            ELSE IF Join(d, "cffi") \in D /\ d \o <<"cffi", "__init__.py">> \in F
                 THEN d \o <<"cffi", "__init__.py">>
            ELSE IF Join(d, "cffi.py") \in F THEN Join(d, "cffi.py")
            ELSE FindSpec(Tail(paths), wd, F, D, ns \/ Join(d, "cffi") \in D)

IsSource(loc) == loc # NotFound /\ loc # NamespaceLoc

PycName(n) == IF n = "cffi.py" THEN "cffi.cpython.pyc" ELSE "__init__.cpython.pyc"
CacheDir(loc) == Join(ParentOf(loc), "__pycache__")
CacheFile(loc) == Join(CacheDir(loc), PycName(Last(loc)))

\* Importing a source file leaves its bytecode cache beside it when the
\* interpreter writes bytecode (w).
FilesAfterImport(loc, w, F) == IF w /\ IsSource(loc) THEN F \cup {CacheFile(loc)} ELSE F
DirsAfterImport(loc, w, D) == IF w /\ IsSource(loc) THEN D \cup {CacheDir(loc)} ELSE D

---------------------------------------------------------------------------
(* diagnose_cffi_issue *)

\* Check 1: the current directory.
Check1Findings(wd, F, D) ==
    (IF Exists(Join(wd, "cffi.py"), wd, F, D) THEN <<Join(wd, "cffi.py")>> ELSE <<>>)
    \o (IF IsDir(Join(wd, "cffi"), wd, D) THEN <<Join(wd, "cffi")>> ELSE <<>>)

\* Check 2: one iteration of the loop over sys.path.
ScanFindings(entry, wd, F, D) ==
    LET path == IF entry = EmptyEntry THEN wd ELSE entry
    IN IF ~IsDir(path, wd, D) THEN <<>>
       ELSE IF HasMarker(path) THEN <<>>
       ELSE (IF Exists(Join(path, "cffi.py"), wd, F, D)
             THEN <<Join(path, "cffi.py")>> ELSE <<>>)
            \o (IF IsDir(Join(path, "cffi"), wd, D)
                   /\ Exists(path \o <<"cffi", "__init__.py">>, wd, F, D)
                THEN <<Join(path, "cffi")>> ELSE <<>>)

NoImport == [loaded_from |-> "not-run", error |-> "none"]

\* What executing the body of the module found can do: define __version__,
\* leave it undefined, raise ImportError (a missing backend), raise
\* AttributeError itself (a circular "import cffi; cffi.FFI()"), raise an
\* exception of another class, or call sys.exit.
ModuleBodies ==
    {"defines __version__", "no __version__", "raises ImportError",
     "raises AttributeError", "raises ValueError", "sys.exit(0)", "sys.exit(7)"}

\* Check 3: what "import cffi" and the try block observe for a module found
\* at loc whose body behaves as body.  Only AttributeError and ImportError
\* are caught; any other exception leaves the function.  An AttributeError
\* raised by the body is caught before line 122 has printed a location.
ImportOutcome(loc, body) ==
    IF loc = NotFound THEN [loaded_from |-> "nowhere", error |-> "ImportError"]
    ELSE IF loc = NamespaceLoc THEN [loaded_from |-> "elsewhere", error |-> "AttributeError"]
    ELSE IF body = "raises ImportError" THEN [loaded_from |-> "nowhere", error |-> "ImportError"]
    ELSE IF body = "raises AttributeError"
    THEN [loaded_from |-> "unreported", error |-> "AttributeError"]
    ELSE IF body = "raises ValueError" THEN [loaded_from |-> "unreported", error |-> "uncaught"]
    ELSE IF body \in {"sys.exit(0)", "sys.exit(7)"}
    THEN [loaded_from |-> "unreported", error |-> "SystemExit"]
    ELSE [loaded_from |-> IF HasMarker(loc) THEN "site-packages" ELSE "elsewhere",
          error |-> IF body = "defines __version__" THEN "none" ELSE "AttributeError"]

\* Status of a process ended by an exception that left check 3: the argument
\* of sys.exit, or 1 after the traceback of an uncaught exception.
StatusOfEscape(body) ==
    IF body = "sys.exit(0)" THEN 0 ELSE IF body = "sys.exit(7)" THEN 7 ELSE 1

\* Check 1.  The look into __pycache__ for cffi.*.pyc (lines 74-82) only
\* reads and prints a note; it changes none of the variables.
Check1 ==
    /\ pc = "check1"
    /\ issues_found' = issues_found \o Check1Findings(cwd, files, dirs)
    /\ idx' = 1
    /\ pc' = "check2"
    /\ UNCHANGED <<files, dirs, import_outcome, printed_fixes, exit_status, exc, created>>
    /\ UNCHANGED run_vars
    /\ UNCHANGED const_vars

Check2 ==
    /\ pc = "check2"
    /\ idx <= Len(sys_path)
    /\ issues_found' = issues_found \o ScanFindings(sys_path[idx], cwd, files, dirs)
    /\ idx' = idx + 1
    /\ UNCHANGED <<pc, files, dirs, import_outcome, printed_fixes, exit_status, exc, created>>
    /\ UNCHANGED run_vars
    /\ UNCHANGED const_vars

Check3(body, w) ==
    /\ pc = "check2"
    /\ idx > Len(sys_path)
    /\ LET loc == FindSpec(sys_path, cwd, files, dirs, FALSE)
           seen == ImportOutcome(loc, body)
       IN /\ import_outcome' = seen
          /\ files' = FilesAfterImport(loc, w, files)
          /\ dirs' = DirsAfterImport(loc, w, dirs)
          /\ IF seen.error \in {"uncaught", "SystemExit"}
             THEN /\ pc' = "exited"
                  /\ exit_status' = StatusOfEscape(body)
                  /\ exc' = seen.error
             ELSE /\ pc' = "summary"
                  /\ UNCHANGED <<exit_status, exc>>
    /\ UNCHANGED <<issues_found, idx, printed_fixes, created>>
    /\ UNCHANGED run_vars
    /\ UNCHANGED const_vars

\* The summary, "return len(issues_found)", and exit(main()).
Summary ==
    /\ pc = "summary"
    /\ printed_fixes' = issues_found
    /\ exit_status' = Len(issues_found)
    /\ pc' = "exited"
    /\ UNCHANGED <<files, dirs, issues_found, idx, import_outcome, exc, created>>
    /\ UNCHANGED run_vars
    /\ UNCHANGED const_vars

---------------------------------------------------------------------------
(* Texts and results of external commands *)

Blank == <<>>
VersionLine == <<"1.17.1">>
TracebackLine == <<"Traceback (most recent call last):">>
AttrErrLine == <<"AttributeError: module 'cffi' has no attribute '__version__'">>
ModNotFoundLine == <<"ModuleNotFoundError: No module named 'cffi'">>
ToolErrLine == <<"error">>

RECURSIVE DropLeadingBlank(_)
DropLeadingBlank(s) ==
    IF s = <<>> THEN s
    ELSE IF Head(s) = Blank THEN DropLeadingBlank(Tail(s)) ELSE s

RECURSIVE DropTrailingBlank(_)
DropTrailingBlank(s) ==
    IF s = <<>> THEN s
    ELSE IF Last(s) = Blank THEN DropTrailingBlank(ParentOf(s)) ELSE s

\* text.strip().splitlines(): blank lines go at both ends, inner ones stay.
StripSplitLines(s) == DropTrailingBlank(DropLeadingBlank(s))

NoResult == [code |-> -1, out |-> <<>>, err |-> <<>>]

\* Results of "init" and "add cffi".
SetupResults == [code : {0, 1, 2}, out : {<<>>}, err : {<<>>, <<ToolErrLine>>}]

\* Results an arbitrary UV_BINARY may hand back for a probe.
OutTexts == {<<>>, <<Blank>>, <<InstalledInit>>, <<InstalledInit, VersionLine, Blank>>}
ErrTexts == {<<>>, <<Blank>>, <<TracebackLine, AttrErrLine>>}
AnyResults == [code : {0, 1}, out : OutTexts, err : ErrTexts]

\* sys.path of "python -c" run by the tool inside the project: the working
\* directory first, the project environment's site-packages after it.
ProbeSysPath == <<EmptyEntry, VenvSite>>

\* The three probe programs, run by the interpreter on file system F, D.
\*   "file+version": import cffi; print(cffi.__file__); print(cffi.__version__)
\*   "version":      import cffi; print(cffi.__version__)
\*   "file":         import cffi; print(cffi.__file__)
\* Only the installed package defines __version__; the shadows written by the
\* script hold a comment.
PythonProbe(kind, F, D) ==
    LET loc == FindSpec(ProbeSysPath, project_dir, F, D, FALSE)
        has_version == loc = InstalledInit
    IN IF loc = NotFound
       THEN [code |-> 1, out |-> <<>>, err |-> <<TracebackLine, ModNotFoundLine>>]
       ELSE IF kind = "file"
       THEN [code |-> 0, out |-> <<loc>>, err |-> <<>>]
       ELSE IF has_version
       THEN [code |-> 0,
             out |-> IF kind = "version" THEN <<VersionLine>> ELSE <<loc, VersionLine>>,
             err |-> <<>>]
       ELSE [code |-> 1,
             out |-> IF kind = "version" THEN <<>> ELSE <<loc>>,
             err |-> <<TracebackLine, AttrErrLine>>]

\* run_cmd of a probe: the real tool runs the interpreter, any other binary
\* answers what it likes.
ProbeResults(kind, F, D) ==
    IF uv_binary = "uv" THEN {PythonProbe(kind, F, D)} ELSE AnyResults

---------------------------------------------------------------------------
(* main *)

\* Leaving the "with tempfile.TemporaryDirectory()" block, by return or by
\* exception, removes the temporary directory and all below it.
TempDirCleanup(S) == {p \in S : ~IsUnder(p, tmpdir)}

\* os.remove
RemoveFile(F, p) == F \ {p}

\* shutil.rmtree
RmTree(S, d) == {p \in S : ~IsUnder(p, d)}

\* Leaving as it would be with the directory removed only at the end of a
\* completed run.
Leave_CleanupOnSuccessOnly(F, D, status, e) ==
    /\ pc' = "exited"
    /\ exit_status' = status
    /\ exc' = e
    /\ files' = IF status = 0 THEN TempDirCleanup(F) ELSE F
    /\ dirs' = IF status = 0 THEN TempDirCleanup(D) ELSE D

Leave(F, D, status, e) ==
    /\ pc' = "exited"
    /\ exit_status' = status
    /\ exc' = e
    /\ files' = TempDirCleanup(F)
    /\ dirs' = TempDirCleanup(D)

Continue(next, F, D) ==
    /\ pc' = next
    /\ files' = F
    /\ dirs' = D
    /\ UNCHANGED <<exit_status, exc>>

RunCmd(label, cmd, r) ==
    /\ cmds' = Append(cmds, [cmd |-> cmd, cwd |-> project_dir])
    /\ code' = r.code
    /\ out' = r.out
    /\ err' = r.err
    /\ transcript' = Append(transcript, label)

\* run_cmd of a probe on file system F, D; the interpreter it starts may
\* leave the bytecode cache of a source file it imported (w).
ProbeFiles(w, F, D) ==
    FilesAfterImport(FindSpec(ProbeSysPath, project_dir, F, D, FALSE), w, F)
ProbeDirs(w, F, D) ==
    DirsAfterImport(FindSpec(ProbeSysPath, project_dir, F, D, FALSE), w, D)

Main ==
    /\ pc = "main"
    /\ IF args_diagnose
       THEN /\ pc' = "check1"
            /\ UNCHANGED <<files, dirs, created>>
       ELSE /\ pc' = "step1"
            /\ dirs' = dirs \cup {tmpdir, project_dir}
            /\ created' = created \cup {tmpdir, project_dir}
            /\ UNCHANGED files
    /\ UNCHANGED <<exit_status, exc>>
    /\ UNCHANGED diag_vars
    /\ UNCHANGED run_vars
    /\ UNCHANGED const_vars

\* What the command of a setup step leaves in the project directory.  The
\* script only passes cwd=project_dir to the child (run_cmd) and never writes
\* there itself in steps 1 and 2: the tool uv creates the project file and the
\* environment with the installed package; any other program named by
\* UV_BINARY may write them or nothing at all.
ToolWrites ==
    IF uv_binary = "uv" THEN {TRUE} ELSE BOOLEAN

InitFiles(t) ==
    IF t THEN {Join(project_dir, "pyproject.toml")} ELSE {}

AddFiles(t) ==
    IF t THEN {InstalledInit} ELSE {}

AddDirs(t) ==
    IF t THEN {Join(project_dir, ".venv"), VenvSite, Join(VenvSite, "cffi")} ELSE {}

\* Step 1: "{uv_binary} init"
Step1(r, t) ==
    /\ pc = "step1"
    /\ RunCmd("1", "init", r)
    /\ IF r.code # 0
       THEN Leave(files, dirs, 1, "none")
       ELSE Continue("step2", files \cup InitFiles(t), dirs)
    /\ UNCHANGED <<probe3, created>>
    /\ UNCHANGED diag_vars
    /\ UNCHANGED const_vars

\* Step 2 as it would be without the check of the exit code.
Step2_NoCheck(r, t) ==
    /\ pc = "step2"
    /\ RunCmd("2", "add cffi", r)
    /\ Continue("step3", files \cup AddFiles(t), dirs \cup AddDirs(t))
    /\ UNCHANGED <<probe3, created>>
    /\ UNCHANGED diag_vars
    /\ UNCHANGED const_vars

\* Step 2: "{uv_binary} add cffi"
Step2(r, t) ==
    /\ pc = "step2"
    /\ RunCmd("2", "add cffi", r)
    /\ IF r.code # 0
       THEN Leave(files, dirs, 1, "none")
       ELSE Continue("step3", files \cup AddFiles(t), dirs \cup AddDirs(t))
    /\ UNCHANGED <<probe3, created>>
    /\ UNCHANGED diag_vars
    /\ UNCHANGED const_vars

\* Step 3: the clean-project probe.
Step3(r, w) ==
    /\ pc = "step3"
    /\ RunCmd("3", "file+version", r)
    /\ probe3' = r
    /\ IF r.code = 0 /\ Len(StripSplitLines(r.out)) < 2
       THEN Leave(ProbeFiles(w, files, dirs), ProbeDirs(w, files, dirs), 1, "IndexError")
       ELSE Continue("step4a", ProbeFiles(w, files, dirs), ProbeDirs(w, files, dirs))
    /\ UNCHANGED created
    /\ UNCHANGED diag_vars
    /\ UNCHANGED const_vars

\* Step 4a: write cffi.py into the project.
Step4a ==
    /\ pc = "step4a"
    /\ transcript' = Append(transcript, "4a")
    /\ created' = created \cup {shadow_file}
    /\ Continue("step5a", files \cup {shadow_file}, dirs)
    /\ UNCHANGED <<cmds, code, out, err, probe3>>
    /\ UNCHANGED diag_vars
    /\ UNCHANGED const_vars

\* Steps 5a and 5b: the version probe with the shadow in place.
Step5(here, next, label, r, w) ==
    /\ pc = here
    /\ RunCmd(label, "version", r)
    /\ IF r.code # 0 /\ Len(StripSplitLines(r.err)) = 0
       THEN Leave(ProbeFiles(w, files, dirs), ProbeDirs(w, files, dirs), 1, "IndexError")
       ELSE Continue(next, ProbeFiles(w, files, dirs), ProbeDirs(w, files, dirs))
    /\ UNCHANGED <<probe3, created>>
    /\ UNCHANGED diag_vars
    /\ UNCHANGED const_vars

Step5a(r, w) == Step5("step5a", "step6a", "5a", r, w)

\* Steps 6a and 6b: the file-location probe with the shadow in place.
Step6(here, next, label, r, w) ==
    /\ pc = here
    /\ RunCmd(label, "file", r)
    /\ Continue(next, ProbeFiles(w, files, dirs), ProbeDirs(w, files, dirs))
    /\ UNCHANGED <<probe3, created>>
    /\ UNCHANGED diag_vars
    /\ UNCHANGED const_vars

Step6a(r, w) == Step6("step6a", "step7a", "6a", r, w)

\* Steps 7a and 7b after the removal: the probe of step 3 again, on F, D.
Step7(here, next, label, r, w, F, D) ==
    /\ pc = here
    /\ RunCmd(label, "file+version", r)
    /\ IF r.code = 0 /\ Len(StripSplitLines(r.out)) < 1
       THEN Leave(ProbeFiles(w, F, D), ProbeDirs(w, F, D), 1, "IndexError")
       ELSE Continue(next, ProbeFiles(w, F, D), ProbeDirs(w, F, D))
    /\ UNCHANGED <<probe3, created>>
    /\ UNCHANGED diag_vars
    /\ UNCHANGED const_vars

\* Step 7a as it would be with the shadow file left in place.
FilesAfter7a_NotRemoved == files

\* Step 7a: os.remove(shadow_file)
FilesAfter7a == RemoveFile(files, shadow_file)

Step7a(r, w) == Step7("step7a", "step4b", "7a", r, w, FilesAfter7a, dirs)

\* Step 4b as it would be with the directory created empty.
ShadowPackageFiles_NoInit == {}

\* Step 4b: os.makedirs(shadow_dir) and write cffi/__init__.py.
ShadowPackageFiles == {shadow_init}

Step4b ==
    /\ pc = "step4b"
    /\ transcript' = Append(transcript, "4b")
    /\ created' = created \cup {shadow_dir} \cup ShadowPackageFiles
    /\ Continue("step5b", files \cup ShadowPackageFiles, dirs \cup {shadow_dir})
    /\ UNCHANGED <<cmds, code, out, err, probe3>>
    /\ UNCHANGED diag_vars
    /\ UNCHANGED const_vars

Step5b(r, w) == Step5("step5b", "step6b", "5b", r, w)

Step6b(r, w) == Step6("step6b", "step7b", "6b", r, w)

\* Step 7b: shutil.rmtree(shadow_dir)
FilesAfter7b == RmTree(files, shadow_dir)
DirsAfter7b == RmTree(dirs, shadow_dir)

Step7b(r, w) == Step7("step7b", "conclusion", "7b", r, w, FilesAfter7b, DirsAfter7b)

\* The conclusion and "return 0".
Conclusion ==
    /\ pc = "conclusion"
    /\ transcript' = Append(transcript, "CONCLUSION")
    /\ Leave(files, dirs, 0, "none")
    /\ UNCHANGED <<cmds, code, out, err, probe3, created>>
    /\ UNCHANGED diag_vars
    /\ UNCHANGED const_vars

---------------------------------------------------------------------------
(* Specification *)

\* The reproduction reads neither cwd, sys.path nor the user's directories;
\* its runs start from two file systems (cffi.py in the user's project or not).
Init ==
    /\ args_diagnose \in BOOLEAN
    /\ uv_binary \in (IF args_diagnose THEN {"uv"} ELSE {"uv", "other"})
    /\ pc = "main"
    /\ cwd \in (IF args_diagnose THEN Roots ELSE {Proj})
    /\ sys_path \in (IF args_diagnose THEN BoundedSeq(PathEntries, MaxPathLen)
                     ELSE {<<EmptyEntry, SitePkgs>>})
    /\ \E py \in [Roots -> BOOLEAN], kind \in [Roots -> Kinds] :
          /\ args_diagnose \/ (~py[SitePkgs] /\ \A r \in Roots : kind[r] = "none")
          /\ files = UNION {RootFiles(r, py[r], kind[r]) : r \in Roots}
          /\ dirs = BaseDirs \cup UNION {RootDirs(r, kind[r]) : r \in Roots}
    /\ files0 = files
    /\ dirs0 = dirs
    /\ issues_found = <<>>
    /\ idx = 0
    /\ import_outcome = NoImport
    /\ printed_fixes = <<>>
    /\ cmds = <<>>
    /\ code = NoResult.code
    /\ out = NoResult.out
    /\ err = NoResult.err
    /\ transcript = <<>>
    /\ exit_status = -1
    /\ exc = "none"
    /\ probe3 = NoResult
    /\ created = {}

Next ==
    \/ Main
    \/ Check1
    \/ Check2
    \/ \E body \in ModuleBodies, w \in BOOLEAN : Check3(body, w)
    \/ Summary
    \/ \E r \in SetupResults, t \in ToolWrites : Step1(r, t)
    \/ \E r \in SetupResults, t \in ToolWrites : Step2(r, t)
    \/ \E w \in BOOLEAN : \E r \in ProbeResults("file+version", files, dirs) : Step3(r, w)
    \/ Step4a
    \/ \E w \in BOOLEAN : \E r \in ProbeResults("version", files, dirs) : Step5a(r, w)
    \/ \E w \in BOOLEAN : \E r \in ProbeResults("file", files, dirs) : Step6a(r, w)
    \/ \E w \in BOOLEAN : \E r \in ProbeResults("file+version", FilesAfter7a, dirs) : Step7a(r, w)
    \/ Step4b
    \/ \E w \in BOOLEAN : \E r \in ProbeResults("version", files, dirs) : Step5b(r, w)
    \/ \E w \in BOOLEAN : \E r \in ProbeResults("file", files, dirs) : Step6b(r, w)
    \/ \E w \in BOOLEAN : \E r \in ProbeResults("file+version", FilesAfter7b, DirsAfter7b) : Step7b(r, w)
    \/ Conclusion

Spec == Init /\ [][Next]_vars

---------------------------------------------------------------------------
(* Properties *)

DiagExited == args_diagnose /\ pc = "exited"
DiagReturned == DiagExited /\ exc = "none"
ReproExited == ~args_diagnose /\ pc = "exited"

CwdHasShadowFile == Join(cwd, "cffi.py") \in files0
CwdHasCffiEntry == Join(cwd, "cffi") \in (files0 \cup dirs0)

\* No searched directory other than the current one holds anything named
\* after the dependency.
OtherDirsClean ==
    \A k \in 1..Len(sys_path) :
        LET d == Abs(EntryDir(sys_path[k], cwd), cwd)
        IN \/ d = cwd
           \/ d \notin dirs0
           \/ (Join(d, "cffi.py") \notin files0 /\ Join(d, "cffi") \notin (files0 \cup dirs0))

Listed(p) == \E k \in 1..Len(printed_fixes) : printed_fixes[k] = p

\* C1: diagnosis that returns, run in a current directory holding the shadow
\* file cffi.py (and nothing else named cffi, there or in another searched
\* directory), returns 1 and lists that file; run in a current directory
\* holding no shadow it returns 0; for every search path, also one naming the
\* current directory.
C1_ExactlyOneIssue ==
    (DiagReturned /\ OtherDirsClean /\ ~CwdHasCffiEntry) =>
        /\ CwdHasShadowFile => (exit_status = 1 /\ Listed(Join(cwd, "cffi.py")))
        /\ ~CwdHasShadowFile => exit_status = 0

\* C2: no finding names a path containing "site-packages".
C2_NoFindingUnderSitePackages ==
    \A k \in 1..Len(issues_found) : ~HasMarker(issues_found[k])

SetupFailed ==
    /\ ~args_diagnose
    /\ cmds # <<>>
    /\ Last(cmds).cmd \in {"init", "add cffi"}
    /\ code # 0

\* C3: when "init" or "add cffi" returns non-zero the run has exited with
\* status 1, has run no probe and has created neither shadow.
C3_SetupFailureAborts ==
    SetupFailed =>
        /\ pc = "exited"
        /\ exit_status = 1
        /\ \A k \in 1..Len(cmds) : cmds[k].cmd \in {"init", "add cffi"}
        /\ created \cap {shadow_file, shadow_dir, shadow_init} = {}
        /\ transcript \in {<<"1">>, <<"1", "2">>}

C3_Witness == SetupFailed /\ pc = "exited" /\ Len(cmds) = 2 /\ exit_status = 1

FullTranscript ==
    <<"1", "2", "3", "4a", "5a", "6a", "7a", "4b", "5b", "6b", "7b", "CONCLUSION">>

\* C4: once both setup commands succeeded (a probe has been run), whatever
\* the probes return, the run ends having printed every step in order and
\* exits with status 0.
C4_ProbeFailureNotFatal ==
    (ReproExited /\ Len(cmds) >= 3) =>
        /\ exit_status = 0
        /\ exc = "none"
        /\ transcript = FullTranscript

\* What the project directory holds of the shadows.
ShadowState(F, D) == {p \in F \cup D : p = shadow_file \/ IsUnder(p, shadow_dir)}

After7 == ~args_diagnose /\ uv_binary = "uv" /\ pc \in {"step4b", "conclusion"}

\* C5: run with the real tool, the probe after each removal (7a, 7b) gives
\* exactly the result of the clean probe of step 3: exit code 0 and the same
\* location under site-packages; and before step 4a, after 7a and after 7b
\* the project directory holds nothing of a shadow.
C5_RemovalRestoresCleanProbe ==
    /\ After7 =>
          /\ code = 0
          /\ code = probe3.code
          /\ out = probe3.out
          /\ StripSplitLines(out)[1] = InstalledInit
          /\ HasMarker(StripSplitLines(out)[1])
    /\ (~args_diagnose /\ pc \in {"step4a", "step4b", "conclusion"}) =>
          ShadowState(files, dirs) = {}

C5_Witness ==
    /\ After7
    /\ pc = "conclusion"
    /\ {shadow_file, shadow_dir, shadow_init} \subseteq created
    /\ code = 0
    /\ probe3.code = 0

Shadowed(here) == ~args_diagnose /\ uv_binary = "uv" /\ pc = here

\* C6: run with the real tool, with the shadow in place the version probe
\* exits non-zero on an AttributeError and the file-location probe prints the
\* shadow's path, not the installed one; alike for the file (5a, 6a) and for
\* the directory with __init__.py (5b, 6b).
C6_ShadowBreaksProbe ==
    /\ Shadowed("step6a") =>
          /\ shadow_file \in files
          /\ code # 0
          /\ Last(StripSplitLines(err)) = AttrErrLine
    /\ Shadowed("step7a") =>
          /\ StripSplitLines(out) = <<shadow_file>>
          /\ ~HasMarker(StripSplitLines(out)[1])
    /\ Shadowed("step6b") =>
          /\ shadow_init \in files
          /\ code # 0
          /\ Last(StripSplitLines(err)) = AttrErrLine
    /\ Shadowed("step7b") =>
          /\ StripSplitLines(out) = <<shadow_init>>
          /\ ~HasMarker(StripSplitLines(out)[1])

C6_Witness ==
    /\ Shadowed("step7b")
    /\ StripSplitLines(out) = <<shadow_init>>
    /\ shadow_init \in files

\* C7: when the reproduction has ended, by return or by exception, nothing
\* exists under the temporary directory, the file system is the one the run
\* started from, and all the script created was under the temporary directory.
C7_ArtifactsGone ==
    ReproExited =>
        /\ \A p \in files \cup dirs : ~IsUnder(p, tmpdir)
        /\ files = files0
        /\ dirs = dirs0
        /\ \A p \in created : IsUnder(p, tmpdir)

C7_Witness ==
    /\ ReproExited
    /\ exit_status = 1
    /\ {tmpdir, project_dir} \subseteq created
    /\ tmpdir \notin dirs

\* C8: with --diagnose no temporary directory is created, no command is run
\* and the file system stays the one the run started from.
C8_DiagnosisLeavesFsUnchanged ==
    args_diagnose =>
        /\ files = files0
        /\ dirs = dirs0
        /\ cmds = <<>>
        /\ created = {}

\* C9: a finding naming a cffi directory is only recorded when that
\* directory holds __init__.py.
C9_DirFindingNeedsInit ==
    \A k \in 1..Len(issues_found) :
        Last(issues_found[k]) = "cffi" =>
            Join(Abs(issues_found[k], cwd), "__init__.py") \in files0

RECURSIVE AllScanFindings(_)
AllScanFindings(k) ==
    IF k = 0 THEN <<>>
    ELSE AllScanFindings(k - 1) \o ScanFindings(sys_path[k], cwd, files0, dirs0)

\* C10: the exit status of diagnosis is the number of fixes the summary
\* printed, which are the findings of checks 1 and 2 and no other, whatever
\* the import of check 3 observed.
C10_ExitIsFindingCount ==
    DiagExited =>
        /\ exit_status = Len(printed_fixes)
        /\ printed_fixes = Check1Findings(cwd, files0, dirs0) \o AllScanFindings(Len(sys_path))

====
